---- MODULE Spec2Model ----
(***************************************************************************)
(* Model of the tool-use conversation loop of chatbot_app:                 *)
(*   app.py (simple_chat), conversation_manager.py (ConversationManager),  *)
(*   tool_handler.py (tools, process_tool_call), llm_interface.py          *)
(*   (get_llm_response).                                                   *)
(* The remote model and the database module are external: their answers   *)
(* are inputs, chosen nondeterministically from small sets.                *)
(***************************************************************************)
EXTENDS Integers, Sequences, FiniteSets, TLC

VARIABLES
  pc,            \* position of simple_chat
  messages,      \* ConversationManager.messages
  response,      \* the response of the last get_llm_response call
  sent,          \* the messages argument of the last get_llm_response call
  calls,         \* number of get_llm_response calls made
  rounds,        \* tool_use responses handled since the last user message
  userMsgs,      \* number of user messages appended
  nextId,        \* last tool_use id the remote model has issued
  handlerCalls,  \* the db handler invocations made, in order
  fault,         \* the exception that ended simple_chat, or "none"
  lastOp,        \* the last operation applied to the store (store specification)
  userInput,     \* the last line read by input()
  responses,     \* the responses get_llm_response has returned, in order
  displayed,     \* the last reply printed to the user
  nb,            \* the run of a notebook function (notebook specification)
  sess,          \* the chat sessions of the two-session specification
  db,            \* the module-level database object shared by all sessions
  dispatched,    \* the process_tool_call outcomes of the dispatch specification
  fmt,           \* the extract_reply call of the formatter specification
  aq             \* the answer_question call of the workflow specification

vars == <<pc, messages, response, sent, calls, rounds, userMsgs, nextId,
          handlerCalls, fault, lastOp, userInput, responses, displayed,
          nb, sess, db, dispatched, fmt, aq>>

\* the variables of the other specifications, as seen from simple_chat
otherVars == <<nb, sess, db, dispatched, fmt, aq>>

----------------------------------------------------------------------------
(* Bounds of the model *)

MaxCalls == 3      \* gateway calls explored
MaxUserMsgs == 2   \* user messages explored
MaxBlocks == 2     \* tool_use blocks in one response
MaxOps == 3        \* store operations explored in the store specification
MaxRuns == 2       \* notebook function calls explored
MaxSessRounds == 2 \* tool rounds per session in the two-session specification
MaxDispatches == 3 \* process_tool_call calls explored in the dispatch specification
MaxParts == 3      \* parts a reply is put together from in the formatter specification

----------------------------------------------------------------------------
(* Python values and dictionaries *)

\* A Python value is <<type name, str(value)>>.
PyNone == <<"NoneType", "None">>
PyStr(s) == <<"str", s>>
PyDict(s) == <<"dict", s>>

\* str(content)
Str(v) == v[2]

\* A dict (tool_input) is a set of <<key, value>> pairs.
HasKey(d, k) == \E p \in d : p[1] = k
Get(d, k) == (CHOOSE p \in d : p[1] = k)[2]

Last(s) == s[Len(s)]

IsPrefix(s, t) == Len(s) <= Len(t) /\ SubSeq(t, 1, Len(s)) = s

----------------------------------------------------------------------------
(* tool_handler.py: tools *)

ToolNames == {"get_user", "get_order_by_id", "get_customer_orders", "cancel_order"}

Required(name) ==
  CASE name = "get_user" -> {"key", "value"}
    [] name = "get_order_by_id" -> {"order_id"}
    [] name = "get_customer_orders" -> {"customer_id"}
    [] name = "cancel_order" -> {"order_id"}
    [] OTHER -> {}

\* the enum-constrained properties: <<tool, property, allowed values>>
Enums == {<<"get_user", "key", {"email", "phone", "username"}>>}

----------------------------------------------------------------------------
(* conversation_manager.py *)

TextContent(s) == [kind |-> "str", str |-> s]
ListContent(l) == [kind |-> "list", list |-> l]

TextBlock(t) == [type |-> "text", text |-> t]
ToolUseBlock(id, name, input) ==
  [type |-> "tool_use", id |-> id, name |-> name, input |-> input]

\* a variant of add_message that inserts at the front of the list
AddMessageFront(log, role, content) ==
  <<[role |-> role, content |-> content]>> \o log

AddMessage(log, role, content) ==
  Append(log, [role |-> role, content |-> content])

\* a variant of add_tool_result that appends the result with the role "tool"
AddToolResultRoleTool(log, tool_use_id, content) ==
  Append(log, [role |-> "tool",
               content |-> ListContent(<<[type |-> "tool_result",
                                          tool_use_id |-> tool_use_id,
                                          content |-> Str(content)]>>)])

\* a variant of add_tool_result that overwrites the last message with the result
AddToolResultInPlace(log, tool_use_id, content) ==
  [log EXCEPT ![Len(log)] =
     [role |-> "user",
      content |-> ListContent(<<[type |-> "tool_result",
                                 tool_use_id |-> tool_use_id,
                                 content |-> Str(content)]>>)]]

AddToolResult(log, tool_use_id, content) ==
  Append(log, [role |-> "user",
               content |-> ListContent(<<[type |-> "tool_result",
                                          tool_use_id |-> tool_use_id,
                                          content |-> Str(content)]>>)])

\* a variant of get_messages that hands out only the two latest messages
GetMessagesWindow(log) ==
  IF Len(log) > 2 THEN SubSeq(log, Len(log) - 1, Len(log)) ELSE log

GetMessages(log) == log

----------------------------------------------------------------------------
(* tool_handler.py: process_tool_call *)

\* The outcome of a process_tool_call: a returned value or a raised
\* exception, and the db handler invocation it made (if any).
Return(v, inv) == [raised |-> "none", value |-> v, invoked |-> inv]
Raise(e) == [raised |-> e, value |-> PyNone, invoked |-> <<>>]

\* db is an instance of a class of the database module; what a handler
\* returns is an input of the model.
DbOutcomes == {PyStr("Cancelled the order"), PyStr("Can't find that order!")}

\* a variant of process_tool_call that runs cancel_order a second time
ProcessToolCallAgain(tool_name, tool_input, dbret) ==
  IF tool_name = "get_user" THEN
    IF HasKey(tool_input, "key") /\ HasKey(tool_input, "value")
    THEN Return(dbret, <<[name |-> "get_user", input |-> tool_input]>>)
    ELSE Raise("KeyError")
  ELSE IF tool_name = "get_order_by_id" THEN
    IF HasKey(tool_input, "order_id")
    THEN Return(dbret, <<[name |-> "get_order_by_id", input |-> tool_input]>>)
    ELSE Raise("KeyError")
  ELSE IF tool_name = "get_customer_orders" THEN
    IF HasKey(tool_input, "customer_id")
    THEN Return(dbret, <<[name |-> "get_customer_orders", input |-> tool_input]>>)
    ELSE Raise("KeyError")
  ELSE IF tool_name = "cancel_order" THEN
    IF HasKey(tool_input, "order_id")
    THEN Return(dbret, <<[name |-> "cancel_order", input |-> tool_input],
                         [name |-> "cancel_order", input |-> tool_input]>>)
    ELSE Raise("KeyError")
  ELSE Return(PyNone, <<>>)

\* a variant of process_tool_call that reads a missing order_id of
\* cancel_order as order 42
ProcessToolCallDefaultOrder(tool_name, tool_input, dbret) ==
  IF tool_name = "get_user" THEN
    IF HasKey(tool_input, "key") /\ HasKey(tool_input, "value")
    THEN Return(dbret, <<[name |-> "get_user", input |-> tool_input]>>)
    ELSE Raise("KeyError")
  ELSE IF tool_name = "get_order_by_id" THEN
    IF HasKey(tool_input, "order_id")
    THEN Return(dbret, <<[name |-> "get_order_by_id", input |-> tool_input]>>)
    ELSE Raise("KeyError")
  ELSE IF tool_name = "get_customer_orders" THEN
    IF HasKey(tool_input, "customer_id")
    THEN Return(dbret, <<[name |-> "get_customer_orders", input |-> tool_input]>>)
    ELSE Raise("KeyError")
  ELSE IF tool_name = "cancel_order" THEN
    Return(dbret, <<[name |-> "cancel_order",
                     input |-> IF HasKey(tool_input, "order_id") THEN tool_input
                               ELSE {<<"order_id", "42">>}]>>)
  ELSE Return(PyNone, <<>>)

ProcessToolCall(tool_name, tool_input, dbret) ==
  IF tool_name = "get_user" THEN
    IF HasKey(tool_input, "key") /\ HasKey(tool_input, "value")
    THEN Return(dbret, <<[name |-> "get_user", input |-> tool_input]>>)
    ELSE Raise("KeyError")
  ELSE IF tool_name = "get_order_by_id" THEN
    IF HasKey(tool_input, "order_id")
    THEN Return(dbret, <<[name |-> "get_order_by_id", input |-> tool_input]>>)
    ELSE Raise("KeyError")
  ELSE IF tool_name = "get_customer_orders" THEN
    IF HasKey(tool_input, "customer_id")
    THEN Return(dbret, <<[name |-> "get_customer_orders", input |-> tool_input]>>)
    ELSE Raise("KeyError")
  ELSE IF tool_name = "cancel_order" THEN
    IF HasKey(tool_input, "order_id")
    THEN Return(dbret, <<[name |-> "cancel_order", input |-> tool_input]>>)
    ELSE Raise("KeyError")
  ELSE Return(PyNone, <<>>)

----------------------------------------------------------------------------
(* The database object behind the handlers (tool_handler.py line 5).  Its    *)
(* class is defined in the database module; it is modelled from the tool     *)
(* descriptions: orders have a status, and cancel_order changes the status   *)
(* of an order that is being processed.                                      *)

OrderIds == {"42", "43"}

InitialDb == [o \in OrderIds |-> IF o = "42" THEN "Processing" ELSE "Shipped"]

\* the value the handler of a tool returns in database state d
DbReturn(d, name, input) ==
  IF name = "cancel_order" THEN
    LET o == Get(input, "order_id") IN
      IF o \notin DOMAIN d THEN PyStr("Can't find that order!")
      ELSE IF d[o] = "Processing" THEN PyStr("Cancelled the order")
      ELSE PyStr("Order has already shipped.  Can't cancel it.")
  ELSE IF name = "get_order_by_id" THEN
    LET o == Get(input, "order_id") IN
      IF o \in DOMAIN d THEN PyDict("{'id': '" \o o \o "', 'status': '" \o d[o] \o "'}")
      ELSE PyNone
  ELSE IF name = "get_customer_orders" THEN
    PyDict("[{'id': '42', 'status': '" \o d["42"] \o "'}]")
  ELSE IF Get(input, "key") \in {"email", "phone", "username"}
       THEN PyDict("{'username': 'a'}")
       ELSE PyStr("Invalid key")

\* the database state after the handler of a tool has run
DbAfter(d, name, input) ==
  IF name = "cancel_order" /\ Get(input, "order_id") \in DOMAIN d
     /\ d[Get(input, "order_id")] = "Processing"
  THEN [d EXCEPT ![Get(input, "order_id")] = "Cancelled"]
  ELSE d

----------------------------------------------------------------------------
(* response_formatter.py: extract_reply *)

Min(S) == CHOOSE x \in S : \A y \in S : x <= y

\* str.find(sub): the 0-based index of the first occurrence, or -1
Find(s, sub) ==
  LET hits == {i \in 1..(Len(s) - Len(sub) + 1) : SubSeq(s, i, i + Len(sub) - 1) = sub}
  IN IF hits = {} THEN -1 ELSE Min(hits) - 1

\* s[a:b] for indices a, b >= 0
Slice(s, a, b) ==
  LET e == IF b < Len(s) THEN b ELSE Len(s)
  IN IF a >= e THEN "" ELSE SubSeq(s, a + 1, e)

Whitespace == {" ", "\n", "\t"}

\* a variant of str.strip() that removes leading whitespace only
RECURSIVE StripLeading(_)
StripLeading(s) ==
  IF Len(s) = 0 THEN s
  ELSE IF SubSeq(s, 1, 1) \in Whitespace THEN StripLeading(SubSeq(s, 2, Len(s)))
  ELSE s

\* str.strip()
RECURSIVE Strip(_)
Strip(s) ==
  IF Len(s) = 0 THEN s
  ELSE IF SubSeq(s, 1, 1) \in Whitespace THEN Strip(SubSeq(s, 2, Len(s)))
  ELSE IF SubSeq(s, Len(s), Len(s)) \in Whitespace THEN Strip(SubSeq(s, 1, Len(s) - 1))
  ELSE s

ExtractReply(reply) ==
  LET start_tag == "<reply>"
      end_tag == "</reply>"
      start_index == Find(reply, start_tag) + Len(start_tag)
      end_index == Find(reply, end_tag)
  IN IF start_index # -1 /\ end_index # -1
     THEN Strip(Slice(reply, start_index, end_index))
     ELSE reply

----------------------------------------------------------------------------
(* The remote model: what get_llm_response can return *)

\* tool requests (name, input) the remote model may issue
Requests ==
  { [name |-> "get_user", input |-> {<<"key", "email">>, <<"value", "a@b.c">>}],
    [name |-> "get_user", input |-> {<<"key", "address">>, <<"value", "a@b.c">>}],
    [name |-> "get_user", input |-> {<<"key", "email">>}],
    [name |-> "get_order_by_id", input |-> {<<"order_id", "42">>}],
    [name |-> "get_customer_orders", input |-> {<<"customer_id", "c1">>}],
    [name |-> "cancel_order", input |-> {<<"order_id", "42">>}],
    [name |-> "cancel_order", input |-> {}],
    [name |-> "delete_account", input |-> {}] }

\* requests that precede the last one in a response with several tool_use
\* blocks, and requests that follow a text block
LeadRequests ==
  { [name |-> "get_order_by_id", input |-> {<<"order_id", "42">>}] }

RECURSIVE LeadSeqs(_)
LeadSeqs(n) ==
  IF n = 0 THEN {<<>>}
  ELSE LeadSeqs(n - 1) \cup
       {Append(s, r) : s \in {t \in LeadSeqs(n - 1) : Len(t) = n - 1}, r \in LeadRequests}

\* the last request of a response with several tool_use blocks
LastOfSeveral ==
  { [name |-> "cancel_order", input |-> {<<"order_id", "42">>}],
    [name |-> "delete_account", input |-> {}] }

\* the tool requests of one response, in the order listed
RequestLists ==
  {<<r>> : r \in Requests} \cup
  {Append(s, r) : s \in LeadSeqs(MaxBlocks - 1) \ {<<>>}, r \in LastOfSeveral}

ThinkingTexts == {"Let me look that up."}
FinalTexts == {"<reply> Done. </reply>", "Your order has been cancelled."}
FinalStopReasons == {"end_turn", "max_tokens"}

\* the content of a tool_use response: an optional text block, then the
\* tool_use blocks, with ids the remote model has not issued before
ToolUseContent(lead, reqs, base) ==
  lead \o [i \in 1..Len(reqs) |->
             ToolUseBlock(base + i, reqs[i].name, reqs[i].input)]

ToolUseResponses(base) ==
  {[stop_reason |-> "tool_use", content |-> ToolUseContent(<<>>, reqs, base)] :
      reqs \in RequestLists}
  \cup
  {[stop_reason |-> "tool_use",
    content |-> ToolUseContent(<<TextBlock(t)>>, <<r>>, base)] :
      t \in ThinkingTexts, r \in LeadRequests}

FinalResponses ==
  {[stop_reason |-> sr, content |-> <<TextBlock(t)>>] :
      sr \in FinalStopReasons, t \in FinalTexts}

\* responses that are not tool requests and do not start with a text block:
\* an empty answer, and a tool request cut off at the token limit
EmptyResponses == {[stop_reason |-> "end_turn", content |-> <<>>]}

TruncatedResponses(base) ==
  {[stop_reason |-> "max_tokens",
    content |-> <<ToolUseBlock(base + 1, "cancel_order", {})>>]}

NoResponse == [stop_reason |-> "none", content |-> <<>>]

\* extract_reply applied to the final texts of the model, evaluated once
ExtractedReplies == [t \in FinalTexts |-> ExtractReply(t)]

\* llm_interface.py: the arguments get_llm_response passes to the client
MODEL_NAME == "claude-3-5-sonnet-20240620"
MaxTokens == 1000

GetLlmRequest(msgs, tools) ==
  [model |-> MODEL_NAME, max_tokens |-> MaxTokens, tools |-> tools, messages |-> msgs]

NoRequest == GetLlmRequest(<<>>, {})

NumToolUse(content) == Cardinality({i \in 1..Len(content) : content[i].type = "tool_use"})

----------------------------------------------------------------------------
(* app.py: simple_chat *)

UserInputs == {"Cancel order 42", "exit", "BYE", "Quit"}

\* str.lower()
UpperCase == "ABCDEFGHIJKLMNOPQRSTUVWXYZ"
LowerCase == "abcdefghijklmnopqrstuvwxyz"

LowerChar(c) ==
  IF \E i \in 1..Len(UpperCase) : SubSeq(UpperCase, i, i) = c
  THEN LET i == CHOOSE i \in 1..Len(UpperCase) : SubSeq(UpperCase, i, i) = c
       IN SubSeq(LowerCase, i, i)
  ELSE c

RECURSIVE Lower(_)
Lower(s) ==
  IF Len(s) = 0 THEN ""
  ELSE LowerChar(SubSeq(s, 1, 1)) \o Lower(SubSeq(s, 2, Len(s)))

\* a variant of the test at line 14 without lower()
IsQuitCaseSensitive(user_message) == user_message \in {"exit", "quit", "bye"}

IsQuit(user_message) == Lower(user_message) \in {"exit", "quit", "bye"}

\* a variant of the branch at line 23 that takes every response but end_turn
\* for a tool request
IsToolUseNotEndTurn(resp) == resp.stop_reason # "end_turn"

IsToolUse(resp) == resp.stop_reason = "tool_use"

NoOp == [n |-> 0, op |-> "none", id |-> 0]

\* the values the variables of the other specifications have in simple_chat
NoRun == [fn |-> "none", phase |-> "idle", runs |-> 0, query |-> "",
          tool_choice |-> "none",
          response |-> NoResponse, printed |-> <<>>, toolsRun |-> <<>>,
          fault |-> "none"]
NoSessions == <<>>
NoFormat == [phase |-> "idle", reply |-> "", result |-> ""]
NoBlock == [type |-> "none"]
NoQuestion == [phase |-> "idle", question |-> "", messages |-> <<>>,
               calls |-> <<>>, first |-> NoResponse, executed |-> NoBlock,
               final |-> NoResponse, printed |-> <<>>, fault |-> "none"]

Init ==
  /\ pc = "AwaitingUserInput"
  /\ messages = <<>>
  /\ response = NoResponse
  /\ sent = NoRequest
  /\ calls = 0
  /\ rounds = 0
  /\ userMsgs = 0
  /\ nextId = 0
  /\ handlerCalls = <<>>
  /\ fault = "none"
  /\ lastOp = NoOp
  /\ userInput = ""
  /\ responses = <<>>
  /\ displayed = ""
  /\ nb = NoRun
  /\ sess = NoSessions
  /\ db = InitialDb
  /\ dispatched = <<>>
  /\ fmt = NoFormat
  /\ aq = NoQuestion

\* lines 13-18: read the user's input; quit, or append it as a user turn
ReadInput ==
  /\ pc = "AwaitingUserInput"
  /\ \E user_message \in UserInputs :
       /\ userInput' = user_message
       /\ IF IsQuit(user_message)
          THEN /\ pc' = "Done"
               /\ UNCHANGED <<messages, userMsgs, rounds>>
          ELSE /\ userMsgs < MaxUserMsgs
               /\ calls < MaxCalls
               /\ messages' = AddMessage(messages, "user", TextContent(user_message))
               /\ userMsgs' = userMsgs + 1
               /\ rounds' = 0
               /\ pc' = "ModelThinking"
  /\ UNCHANGED <<response, sent, calls, nextId, handlerCalls, fault, lastOp,
                 responses, displayed>>
  /\ UNCHANGED otherVars

\* a variant of line 36 that stores the extracted reply
StoredReplyExtracted(reply, extracted_reply) == extracted_reply

\* line 36: the text that add_message("assistant", ...) is given
StoredReply(reply, extracted_reply) == reply

\* lines 21-23 and 33-37: the gateway call returns; a response that is not
\* a tool request is handled as the final answer
GatewayCall ==
  /\ pc = "ModelThinking"
  /\ calls < MaxCalls
  /\ \E resp \in FinalResponses \cup EmptyResponses \cup TruncatedResponses(nextId) \cup
                 (IF calls + 1 < MaxCalls THEN ToolUseResponses(nextId) ELSE {}) :
       /\ sent' = GetLlmRequest(GetMessages(messages), ToolNames)
       /\ response' = resp
       /\ responses' = Append(responses, resp)
       /\ calls' = calls + 1
       /\ nextId' = nextId + NumToolUse(resp.content)
       /\ IF IsToolUse(resp)
          THEN /\ pc' = "ExecutingTools"
               /\ UNCHANGED <<messages, displayed, fault>>
          ELSE IF resp.content = <<>>
          THEN /\ pc' = "Crashed"
               /\ fault' = "IndexError"
               /\ UNCHANGED <<messages, displayed>>
          ELSE IF resp.content[1].type # "text"
          THEN /\ pc' = "Crashed"
               /\ fault' = "AttributeError"
               /\ UNCHANGED <<messages, displayed>>
          ELSE LET reply == resp.content[1].text
                   extracted_reply == ExtractedReplies[reply]
               IN /\ displayed' = extracted_reply
                  /\ messages' = AddMessage(messages, "assistant",
                                            TextContent(StoredReply(reply, extracted_reply)))
                  /\ pc' = "AwaitingUserInput"
                  /\ UNCHANGED fault
  /\ UNCHANGED <<rounds, userMsgs, handlerCalls, lastOp, userInput>>
  /\ UNCHANGED otherVars

\* line 21: get_llm_response raises (the API call fails); nothing catches it
GatewayError ==
  /\ pc = "ModelThinking"
  /\ calls < MaxCalls
  /\ calls' = calls + 1
  /\ sent' = GetLlmRequest(GetMessages(messages), ToolNames)
  /\ pc' = "Crashed"
  /\ fault' = "APIError"
  /\ UNCHANGED <<messages, response, rounds, userMsgs, nextId, handlerCalls, lastOp,
                 userInput, responses, displayed>>
  /\ UNCHANGED otherVars

\* the handler invocations of one process_tool_call, with the id of the
\* tool_use block they were made for
ForRequest(invoked, id) ==
  [i \in 1..Len(invoked) |->
     [id |-> id, name |-> invoked[i].name, input |-> invoked[i].input]]

\* a variant of lines 24-31 that appends the assistant turn before the dispatch
ExecuteToolAppendFirst ==
  /\ pc = "ExecutingTools"
  /\ LET tool_use == Last(response.content) IN
       IF tool_use.type # "tool_use"
       THEN /\ pc' = "Crashed"
            /\ fault' = "AttributeError"
            /\ UNCHANGED <<messages, rounds, handlerCalls>>
       ELSE \E dbret \in DbOutcomes :
              LET out == ProcessToolCall(tool_use.name, tool_use.input, dbret) IN
                IF out.raised # "none"
                THEN /\ pc' = "Crashed"
                     /\ fault' = out.raised
                     /\ messages' = AddMessage(messages, "assistant",
                                               ListContent(response.content))
                     /\ UNCHANGED <<rounds, handlerCalls>>
                ELSE /\ handlerCalls' = handlerCalls \o ForRequest(out.invoked, tool_use.id)
                     /\ messages' = AddToolResult(
                                      AddMessage(messages, "assistant",
                                                 ListContent(response.content)),
                                      tool_use.id, out.value)
                     /\ rounds' = rounds + 1
                     /\ pc' = "ModelThinking"
                     /\ UNCHANGED fault
  /\ UNCHANGED <<response, sent, calls, userMsgs, nextId, lastOp,
                 userInput, responses, displayed>>
  /\ UNCHANGED otherVars

\* lines 24-31: dispatch the last content block, append the assistant turn
\* and the tool result
ExecuteTool ==
  /\ pc = "ExecutingTools"
  /\ LET tool_use == Last(response.content) IN
       IF tool_use.type # "tool_use"
       THEN /\ pc' = "Crashed"
            /\ fault' = "AttributeError"
            /\ UNCHANGED <<messages, rounds, handlerCalls>>
       ELSE \E dbret \in DbOutcomes :
              LET out == ProcessToolCall(tool_use.name, tool_use.input, dbret) IN
                IF out.raised # "none"
                THEN /\ pc' = "Crashed"
                     /\ fault' = out.raised
                     /\ UNCHANGED <<messages, rounds, handlerCalls>>
                ELSE /\ handlerCalls' = handlerCalls \o ForRequest(out.invoked, tool_use.id)
                     /\ messages' = AddToolResult(
                                      AddMessage(messages, "assistant",
                                                 ListContent(response.content)),
                                      tool_use.id, out.value)
                     /\ rounds' = rounds + 1
                     /\ pc' = "ModelThinking"
                     /\ UNCHANGED fault
  /\ UNCHANGED <<response, sent, calls, userMsgs, nextId, lastOp,
                 userInput, responses, displayed>>
  /\ UNCHANGED otherVars

Next == ReadInput \/ GatewayCall \/ GatewayError \/ ExecuteTool

Spec == Init /\ [][Next]_vars

\* simple_chat with calls that come back: a get_llm_response call returns
\* (or raises) and a dispatch returns (or raises)
LiveSpec == Spec /\ WF_vars(GatewayCall) /\ WF_vars(ExecuteTool)

----------------------------------------------------------------------------
(* The store on its own: any sequence of ConversationManager operations *)

StoreRoles == {"user", "assistant"}
StoreContents ==
  { TextContent("hi"),
    ListContent(<<ToolUseBlock(1, "cancel_order", {<<"order_id", "42">>})>>),
    ListContent(<<ToolUseBlock(2, "get_order_by_id", {<<"order_id", "42">>})>>) }
StoreIds == {1, 2, 3}

StoreInit ==
  /\ pc = "Store"
  /\ messages = <<>>
  /\ response = NoResponse
  /\ sent = NoRequest
  /\ calls = 0
  /\ rounds = 0
  /\ userMsgs = 0
  /\ nextId = 0
  /\ handlerCalls = <<>>
  /\ fault = "none"
  /\ lastOp = NoOp
  /\ userInput = ""
  /\ responses = <<>>
  /\ displayed = ""
  /\ nb = NoRun
  /\ sess = NoSessions
  /\ db = InitialDb
  /\ dispatched = <<>>
  /\ fmt = NoFormat
  /\ aq = NoQuestion

StoreAddMessage ==
  /\ pc = "Store"
  /\ lastOp.n < MaxOps
  /\ \E role \in StoreRoles, content \in StoreContents :
       messages' = AddMessage(messages, role, content)
  /\ lastOp' = [n |-> lastOp.n + 1, op |-> "add_message", id |-> 0]
  /\ UNCHANGED <<pc, response, sent, calls, rounds, userMsgs, nextId, handlerCalls, fault,
                 userInput, responses, displayed>>
  /\ UNCHANGED otherVars

StoreAddToolResult ==
  /\ pc = "Store"
  /\ lastOp.n < MaxOps
  /\ \E tool_use_id \in StoreIds, content \in DbOutcomes :
       /\ messages' = AddToolResult(messages, tool_use_id, content)
       /\ lastOp' = [n |-> lastOp.n + 1, op |-> "add_tool_result", id |-> tool_use_id]
  /\ UNCHANGED <<pc, response, sent, calls, rounds, userMsgs, nextId, handlerCalls, fault,
                 userInput, responses, displayed>>
  /\ UNCHANGED otherVars

StoreGetMessages ==
  /\ pc = "Store"
  /\ lastOp.n < MaxOps
  /\ sent' = GetLlmRequest(GetMessages(messages), ToolNames)
  /\ lastOp' = [n |-> lastOp.n + 1, op |-> "get_messages", id |-> 0]
  /\ UNCHANGED <<pc, messages, response, calls, rounds, userMsgs, nextId, handlerCalls, fault,
                 userInput, responses, displayed>>
  /\ UNCHANGED otherVars

StoreNext == StoreAddMessage \/ StoreAddToolResult \/ StoreGetMessages

StoreSpec == StoreInit /\ [][StoreNext]_vars

----------------------------------------------------------------------------
(* The variables of simple_chat, as seen from the other specifications *)

chatVars == <<pc, messages, response, sent, calls, rounds, userMsgs, nextId,
              handlerCalls, fault, lastOp, userInput, responses, displayed>>

ChatIdle(p) ==
  /\ pc = p
  /\ messages = <<>>
  /\ response = NoResponse
  /\ sent = NoRequest
  /\ calls = 0
  /\ rounds = 0
  /\ userMsgs = 0
  /\ nextId = 0
  /\ handlerCalls = <<>>
  /\ fault = "none"
  /\ lastOp = NoOp
  /\ userInput = ""
  /\ responses = <<>>
  /\ displayed = ""

----------------------------------------------------------------------------
(* ToolUse/03_structured_outputs.py and ToolUse/05_tool_choice.py:          *)
(* analyze_sentiment, analyze_tweet_sentiment and sms_chatbot, each run     *)
(* against a gateway that may answer with any response                      *)

NbFunctions == {"analyze_sentiment", "analyze_tweet_sentiment", "sms_chatbot"}

\* the tweet or user message a function is called with
NbQueries == {"I love my new phone!", "Hey there! How are you?"}

\* the tool_choice parameter each function passes to client.messages.create
ToolChoice(fn) ==
  IF fn = "sms_chatbot" THEN "any" ELSE "print_sentiment_scores"

Scores == {<<"positive_score", "0.9">>, <<"negative_score", "0.0">>,
           <<"neutral_score", "0.1">>}

NbContents ==
  { <<TextBlock("That's great to hear!")>>,
    <<ToolUseBlock(1, "print_sentiment_scores", Scores)>>,
    <<TextBlock("Here is the analysis:"),
      ToolUseBlock(1, "print_sentiment_scores", Scores)>>,
    <<ToolUseBlock(1, "print_sentiment_scores", {})>>,
    <<ToolUseBlock(1, "print_sentiment_scores", Scores),
      ToolUseBlock(2, "print_sentiment_scores", {<<"positive_score", "0.2">>})>>,
    <<ToolUseBlock(1, "calculator", {<<"num1", "4">>, <<"num2", "2">>})>>,
    <<ToolUseBlock(1, "calculator", {<<"num1", "4">>, <<"num2", "2">>}),
      ToolUseBlock(2, "print_sentiment_scores", Scores)>>,
    <<ToolUseBlock(1, "send_text_to_user", {<<"text", "What is your username?">>})>>,
    <<ToolUseBlock(1, "send_text_to_user", {})>>,
    <<ToolUseBlock(1, "get_customer_info", {<<"username", "jenny76">>})>>,
    <<ToolUseBlock(1, "get_customer_info", {<<"username", "jenny76">>}),
      ToolUseBlock(2, "send_text_to_user", {<<"text", "One moment.">>})>>,
    <<ToolUseBlock(1, "send_text_to_user", {<<"text", "Hi">>}),
      TextBlock("Sent.")>> }

HasToolUse(content) == \E i \in 1..Len(content) : content[i].type = "tool_use"

\* a response stops with tool_use exactly when it holds a tool_use block
NbResponses ==
  {[stop_reason |-> IF HasToolUse(c) THEN "tool_use" ELSE "end_turn", content |-> c] :
      c \in NbContents}
  \cup {[stop_reason |-> "max_tokens", content |-> <<TextBlock("That's great to")>>]}

\* what a function prints: lines of text, JSON documents, objects
Line(t) == [kind |-> "line", text |-> t]
Json(v) == [kind |-> "json", value |-> v]
Repr(v) == [kind |-> "repr", value |-> v]

Outcome(printed, toolsRun, flt) ==
  [printed |-> printed, toolsRun |-> toolsRun, fault |-> flt]

\* a variant of the extraction loop without the break: the last matching
\* block wins
AnalyzeSentimentNoBreak(resp) ==
  LET matches == {i \in 1..Len(resp.content) :
                    /\ resp.content[i].type = "tool_use"
                    /\ resp.content[i].name = "print_sentiment_scores"}
      found == matches # {}
      json_sentiment == IF found THEN resp.content[CHOOSE i \in matches : \A k \in matches : k <= i].input ELSE {}
  IN IF found /\ json_sentiment # {}
     THEN Outcome(<<Line("Sentiment Analysis (JSON):"), Json(json_sentiment)>>, <<>>, "none")
     ELSE Outcome(<<Line("No sentiment analysis found in the response.")>>, <<>>, "none")

\* 03_structured_outputs.py lines 205-215
AnalyzeSentiment(resp) ==
  LET matches == {i \in 1..Len(resp.content) :
                    /\ resp.content[i].type = "tool_use"
                    /\ resp.content[i].name = "print_sentiment_scores"}
      found == matches # {}
      json_sentiment == IF found THEN resp.content[Min(matches)].input ELSE {}
  IN IF found /\ json_sentiment # {}
     THEN Outcome(<<Line("Sentiment Analysis (JSON):"), Json(json_sentiment)>>, <<>>, "none")
     ELSE Outcome(<<Line("No sentiment analysis found in the response.")>>, <<>>, "none")

\* 05_tool_choice.py lines 219-227
AnalyzeTweetSentiment(resp) == Outcome(<<Repr(resp)>>, <<>>, "none")

\* 05_tool_choice.py lines 278-292; the purchases are a fixed list
SendTextToUser(text) == Line("TEXT MESSAGE SENT: " \o text)

GetCustomerInfo(username) ==
  {<<"username", username>>, <<"email", username \o "@email.com">>,
   <<"purchases", "computer mouse, screen protector, usb charging cable">>}

\* a variant of sms_chatbot that dispatches the first content block
SmsChatbotFirstBlock(resp) ==
  IF resp.stop_reason = "tool_use" THEN
    LET last_content_block == resp.content[1] IN
      IF last_content_block.type = "tool_use" THEN
        LET tool_name == last_content_block.name
            tool_inputs == last_content_block.input
            header == Line("=======Claude Wants To Call The " \o tool_name \o " Tool=======")
        IN IF tool_name = "send_text_to_user" THEN
             IF HasKey(tool_inputs, "text")
             THEN Outcome(<<header, SendTextToUser(Get(tool_inputs, "text"))>>,
                          <<[name |-> tool_name, input |-> tool_inputs]>>, "none")
             ELSE Outcome(<<header>>, <<>>, "KeyError")
           ELSE IF tool_name = "get_customer_info" THEN
             IF HasKey(tool_inputs, "username")
             THEN Outcome(<<header, Repr(GetCustomerInfo(Get(tool_inputs, "username")))>>,
                          <<[name |-> tool_name, input |-> tool_inputs]>>, "none")
             ELSE Outcome(<<header>>, <<>>, "KeyError")
           ELSE Outcome(<<header, Line("Oh dear, that tool doesn't exist!")>>, <<>>, "none")
      ELSE Outcome(<<>>, <<>>, "none")
  ELSE Outcome(<<Line("No tool was called. This shouldn't happen!")>>, <<>>, "none")

\* 05_tool_choice.py lines 337-351
SmsChatbot(resp) ==
  IF resp.stop_reason = "tool_use" THEN
    LET last_content_block == Last(resp.content) IN
      IF last_content_block.type = "tool_use" THEN
        LET tool_name == last_content_block.name
            tool_inputs == last_content_block.input
            header == Line("=======Claude Wants To Call The " \o tool_name \o " Tool=======")
        IN IF tool_name = "send_text_to_user" THEN
             IF HasKey(tool_inputs, "text")
             THEN Outcome(<<header, SendTextToUser(Get(tool_inputs, "text"))>>,
                          <<[name |-> tool_name, input |-> tool_inputs]>>, "none")
             ELSE Outcome(<<header>>, <<>>, "KeyError")
           ELSE IF tool_name = "get_customer_info" THEN
             IF HasKey(tool_inputs, "username")
             THEN Outcome(<<header, Repr(GetCustomerInfo(Get(tool_inputs, "username")))>>,
                          <<[name |-> tool_name, input |-> tool_inputs]>>, "none")
             ELSE Outcome(<<header>>, <<>>, "KeyError")
           ELSE Outcome(<<header, Line("Oh dear, that tool doesn't exist!")>>, <<>>, "none")
      ELSE Outcome(<<>>, <<>>, "none")
  ELSE Outcome(<<Line("No tool was called. This shouldn't happen!")>>, <<>>, "none")

RunFunction(fn, resp) ==
  IF fn = "analyze_sentiment" THEN AnalyzeSentiment(resp)
  ELSE IF fn = "analyze_tweet_sentiment" THEN AnalyzeTweetSentiment(resp)
  ELSE SmsChatbot(resp)

NbInit ==
  /\ ChatIdle("Notebook")
  /\ nb = NoRun
  /\ sess = NoSessions
  /\ db = InitialDb
  /\ dispatched = <<>>
  /\ fmt = NoFormat
  /\ aq = NoQuestion

\* a function is called and sends its request
NbCall ==
  /\ pc = "Notebook"
  /\ nb.phase \in {"idle", "done"}
  /\ nb.runs < MaxRuns
  /\ \E fn \in NbFunctions, query \in NbQueries :
       nb' = [fn |-> fn, phase |-> "waiting", runs |-> nb.runs + 1,
              query |-> query, tool_choice |-> ToolChoice(fn), response |-> NoResponse,
              printed |-> <<>>, toolsRun |-> <<>>, fault |-> "none"]
  /\ UNCHANGED <<chatVars, sess, db, dispatched, fmt, aq>>

\* the response arrives and the function handles it to its end
NbReturn ==
  /\ pc = "Notebook"
  /\ nb.phase = "waiting"
  /\ \E resp \in NbResponses :
       LET out == RunFunction(nb.fn, resp) IN
         nb' = [nb EXCEPT !.phase = "done", !.response = resp,
                          !.printed = out.printed, !.toolsRun = out.toolsRun,
                          !.fault = out.fault]
  /\ UNCHANGED <<chatVars, sess, db, dispatched, fmt, aq>>

NbNext == NbCall \/ NbReturn

NotebookSpec == NbInit /\ [][NbNext]_vars

----------------------------------------------------------------------------
(* Two chat sessions in one process: each simple_chat() call has its own    *)
(* ConversationManager (app.py line 9); tool_handler.db is one module-level *)
(* object (tool_handler.py line 5)                                          *)

Sessions == {1, 2}

SessRequests ==
  { [name |-> "cancel_order", input |-> {<<"order_id", "42">>}],
    [name |-> "get_order_by_id", input |-> {<<"order_id", "42">>}] }

NewSession ==
  [pc |-> "AwaitingUserInput", messages |-> <<>>, response |-> NoResponse,
   rounds |-> 0]

SessInit ==
  /\ ChatIdle("Sessions")
  /\ nb = NoRun
  /\ sess = [s \in Sessions |-> NewSession]
  /\ db = InitialDb
  /\ dispatched = <<>>
  /\ fmt = NoFormat
  /\ aq = NoQuestion

\* app.py lines 13-18: the session's user types a request
SessReadInput(s) ==
  /\ pc = "Sessions"
  /\ sess[s].pc = "AwaitingUserInput"
  /\ sess[s].messages = <<>>
  /\ sess' = [sess EXCEPT ![s].messages =
                            AddMessage(@, "user", TextContent("Cancel order 42")),
                          ![s].pc = "ModelThinking"]
  /\ UNCHANGED <<chatVars, nb, db, dispatched, fmt, aq>>

\* app.py lines 21-23 and 33-37: the model answers the session's log
SessGatewayCall(s) ==
  /\ pc = "Sessions"
  /\ sess[s].pc = "ModelThinking"
  /\ \/ /\ sess[s].rounds < MaxSessRounds
        /\ \E r \in SessRequests :
             sess' = [sess EXCEPT
                        ![s].response =
                           [stop_reason |-> "tool_use",
                            content |-> <<ToolUseBlock(Len(sess[s].messages), r.name, r.input)>>],
                        ![s].pc = "ExecutingTools"]
     \/ \E t \in FinalTexts :
          sess' = [sess EXCEPT
                     ![s].response = [stop_reason |-> "end_turn",
                                      content |-> <<TextBlock(t)>>],
                     ![s].messages = AddMessage(@, "assistant", TextContent(t)),
                     ![s].pc = "AwaitingUserInput"]
  /\ UNCHANGED <<chatVars, nb, db, dispatched, fmt, aq>>

\* app.py lines 24-31: the session runs the requested tool on the shared db
SessExecuteTool(s) ==
  /\ pc = "Sessions"
  /\ sess[s].pc = "ExecutingTools"
  /\ LET tool_use == Last(sess[s].response.content)
         out == ProcessToolCall(tool_use.name, tool_use.input,
                                DbReturn(db, tool_use.name, tool_use.input))
     IN /\ sess' = [sess EXCEPT
                      ![s].messages =
                         AddToolResult(
                           AddMessage(@, "assistant", ListContent(sess[s].response.content)),
                           tool_use.id, out.value),
                      ![s].rounds = @ + 1,
                      ![s].pc = "ModelThinking"]
        /\ db' = DbAfter(db, tool_use.name, tool_use.input)
  /\ UNCHANGED <<chatVars, nb, dispatched, fmt, aq>>

SessNext ==
  \E s \in Sessions : SessReadInput(s) \/ SessGatewayCall(s) \/ SessExecuteTool(s)

SessSpec == SessInit /\ [][SessNext]_vars

----------------------------------------------------------------------------
(* process_tool_call called directly, one request after another, on the     *)
(* module-level db                                                          *)

DispatchInit ==
  /\ ChatIdle("Dispatch")
  /\ nb = NoRun
  /\ sess = NoSessions
  /\ db = InitialDb
  /\ dispatched = <<>>
  /\ fmt = NoFormat
  /\ aq = NoQuestion

\* tool_handler.py lines 71-80: the handler call process_tool_call makes is
\* answered by the db in its current state
Dispatch ==
  /\ pc = "Dispatch"
  /\ Len(dispatched) < MaxDispatches
  /\ \E r \in Requests :
       LET call == ProcessToolCall(r.name, r.input, PyNone).invoked
           out == IF call = <<>>
                  THEN ProcessToolCall(r.name, r.input, PyNone)
                  ELSE ProcessToolCall(r.name, r.input,
                                       DbReturn(db, call[1].name, call[1].input))
       IN /\ dispatched' = Append(dispatched,
                                  [name |-> r.name, input |-> r.input,
                                   raised |-> out.raised, value |-> out.value])
          /\ db' = IF call = <<>> THEN db
                   ELSE DbAfter(db, call[1].name, call[1].input)
  /\ UNCHANGED <<chatVars, nb, sess, fmt, aq>>

DispatchNext == Dispatch

DispatchSpec == DispatchInit /\ [][DispatchNext]_vars

----------------------------------------------------------------------------
(* response_formatter.py: extract_reply called on its own, on any reply     *)

ReplyParts == {"<reply>", "</reply>", " ok ", "a"}

\* the replies put together from at most n parts
RECURSIVE Replies(_)
Replies(n) ==
  IF n = 0 THEN {""}
  ELSE Replies(n - 1) \cup {r \o part : r \in Replies(n - 1), part \in ReplyParts}

FmtInit ==
  /\ ChatIdle("Format")
  /\ nb = NoRun
  /\ sess = NoSessions
  /\ db = InitialDb
  /\ dispatched = <<>>
  /\ fmt \in {[phase |-> "called", reply |-> r, result |-> ""] : r \in Replies(MaxParts)}
  /\ aq = NoQuestion

\* lines 4-11: extract_reply returns
FmtReturn ==
  /\ pc = "Format"
  /\ fmt.phase = "called"
  /\ fmt' = [fmt EXCEPT !.phase = "returned", !.result = ExtractReply(fmt.reply)]
  /\ UNCHANGED <<chatVars, nb, sess, db, dispatched, aq>>

FmtNext == FmtReturn

FormatSpec == FmtInit /\ [][FmtNext]_vars

----------------------------------------------------------------------------
(* ToolUse/04_complete_workflow.py: answer_question (lines 444-501), run    *)
(* against a gateway that may answer with any response and a Wikipedia      *)
(* lookup that may fail                                                     *)

Questions == {"Who wrote the score for the movie Challengers?",
              "How many legs does an octopus have?",
              "Who wrote the book 'Life of Pi'"}

\* lines 451-454, without the indentation of the literal
Prompt(question) ==
  "Answer the following question <question>" \o question \o "</question>"
  \o " When you can answer the question, keep your answer as short as possible"
  \o " and enclose it in <answer> tags"

AqContents ==
  { <<TextBlock("<answer>8</answer>")>>,
    <<ToolUseBlock("toolu_01", "get_article", {<<"search_term", "Challengers (film)">>})>>,
    <<TextBlock("I need the article."),
      ToolUseBlock("toolu_01", "get_article", {<<"search_term", "Challengers (film)">>})>>,
    <<ToolUseBlock("toolu_01", "get_article", {<<"search_term", "Challengers (film)">>}),
      ToolUseBlock("toolu_02", "get_article", {<<"search_term", "Trent Reznor">>})>>,
    <<ToolUseBlock("toolu_01", "get_article", {})>>,
    <<ToolUseBlock("toolu_01", "web_search", {<<"topic", "Challengers">>})>>,
    <<>> }

AqResponses ==
  {[stop_reason |-> IF HasToolUse(c) THEN "tool_use" ELSE "end_turn", content |-> c] :
      c \in AqContents}

\* lines 96-100: get_article returns the page content, or results[0] raises
\* when the search finds nothing
ArticleOutcomes ==
  { [raised |-> "none", value |-> "Challengers is a 2024 film scored by Trent Reznor and Atticus Ross."],
    [raised |-> "none", value |-> "Trent Reznor is an American musician."],
    [raised |-> "IndexError", value |-> ""] }

\* a variant of lines 479-488 that puts the tool's name where the id belongs
ToolResponseByName(tool_use, wiki_result) ==
  [role |-> "user",
   content |-> ListContent(<<[type |-> "tool_result",
                              tool_use_id |-> tool_use.name,
                              content |-> wiki_result]>>)]

\* lines 479-488: the tool_result message
ToolResponse(tool_use, wiki_result) ==
  [role |-> "user",
   content |-> ListContent(<<[type |-> "tool_result",
                              tool_use_id |-> tool_use.id,
                              content |-> wiki_result]>>)]

\* lines 498 and 501: print(response.content[0].text), which raises for an
\* empty content list and for a first block without text
PrintFirstText(run, resp, heading) ==
  IF resp.content = <<>>
  THEN [run EXCEPT !.phase = "done", !.fault = "IndexError",
                   !.printed = @ \o <<Line(heading)>>]
  ELSE IF resp.content[1].type # "text"
  THEN [run EXCEPT !.phase = "done", !.fault = "AttributeError",
                   !.printed = @ \o <<Line(heading)>>]
  ELSE [run EXCEPT !.phase = "done",
                   !.printed = @ \o <<Line(heading), Line(resp.content[1].text)>>]

AqInit ==
  /\ ChatIdle("Workflow")
  /\ nb = NoRun
  /\ sess = NoSessions
  /\ db = InitialDb
  /\ dispatched = <<>>
  /\ fmt = NoFormat
  /\ aq = NoQuestion

\* lines 444-463: answer_question is called and makes its first request
AqCall ==
  /\ pc = "Workflow"
  /\ aq.phase = "idle"
  /\ \E question \in Questions :
       LET msgs == <<[role |-> "user", content |-> TextContent(Prompt(question))]>>
       IN aq' = [aq EXCEPT !.phase = "first", !.question = question,
                           !.messages = msgs, !.calls = <<msgs>>]
  /\ UNCHANGED <<chatVars, nb, sess, db, dispatched, fmt>>

\* lines 465-501: the first response arrives; a get_article request is run
\* and sent back in a second request
AqFirstResponse ==
  /\ pc = "Workflow"
  /\ aq.phase = "first"
  /\ \E resp \in AqResponses, wiki \in ArticleOutcomes :
       LET got == [aq EXCEPT !.first = resp] IN
       IF resp.stop_reason = "tool_use" THEN
         LET tool_use == Last(resp.content)
             withRequest == Append(aq.messages,
                                   [role |-> "assistant", content |-> ListContent(resp.content)])
         IN IF tool_use.type # "tool_use"
            THEN aq' = [got EXCEPT !.phase = "done", !.fault = "AttributeError"]
            ELSE IF tool_use.name = "get_article" THEN
              IF ~HasKey(tool_use.input, "search_term")
              THEN aq' = [got EXCEPT !.phase = "done", !.fault = "KeyError",
                                     !.messages = withRequest]
              ELSE LET said == Line("Claude wants to get an article for "
                                    \o Get(tool_use.input, "search_term"))
                   IN IF wiki.raised # "none"
                      THEN aq' = [got EXCEPT !.phase = "done", !.fault = wiki.raised,
                                             !.messages = withRequest,
                                             !.executed = tool_use,
                                             !.printed = <<said>>]
                      ELSE LET msgs == Append(withRequest, ToolResponse(tool_use, wiki.value))
                           IN aq' = [got EXCEPT !.phase = "second",
                                                !.messages = msgs,
                                                !.executed = tool_use,
                                                !.printed = <<said>>,
                                                !.calls = Append(@, msgs)]
            ELSE aq' = [got EXCEPT !.phase = "done", !.messages = withRequest]
       ELSE aq' = PrintFirstText(got, resp, "Claude did not call our tool")
  /\ UNCHANGED <<chatVars, nb, sess, db, dispatched, fmt>>

\* lines 490-498: the second response arrives and its text is printed
AqSecondResponse ==
  /\ pc = "Workflow"
  /\ aq.phase = "second"
  /\ \E resp \in AqResponses :
       aq' = PrintFirstText([aq EXCEPT !.final = resp], resp, "Claude's final answer:")
  /\ UNCHANGED <<chatVars, nb, sess, db, dispatched, fmt>>

AqNext == AqCall \/ AqFirstResponse \/ AqSecondResponse

WorkflowSpec == AqInit /\ [][AqNext]_vars

----------------------------------------------------------------------------
(* Reading the log *)

Range(f) == {f[i] : i \in DOMAIN f}

IsToolResultTurn(m) ==
  /\ m.role = "user"
  /\ m.content.kind = "list"
  /\ m.content.list[1].type = "tool_result"

ResultBlock(m) == m.content.list[1]
ResultId(m) == ResultBlock(m).tool_use_id

IsRequestTurn(m) ==
  /\ m.role = "assistant"
  /\ m.content.kind = "list"

\* the tool_use blocks of an assistant turn, in the order listed
TurnRequests(m) == SelectSeq(m.content.list, LAMBDA b : b.type = "tool_use")

TurnRequestIds(m) == {b.id : b \in Range(TurnRequests(m))}

RequestBlocks(log) ==
  UNION {Range(TurnRequests(log[i])) : i \in {j \in 1..Len(log) : IsRequestTurn(log[j])}}

IssuedIds(log) == {b.id : b \in RequestBlocks(log)}

AnsweredIds(log) ==
  {ResultId(log[i]) : i \in {j \in 1..Len(log) : IsToolResultTurn(log[j])}}

\* the ids of the requests in the log that have no tool result yet
Outstanding(log) == IssuedIds(log) \ AnsweredIds(log)

\* the positions of the tool results appended for the request turn at j
ResultIdxs(log, j) ==
  {k \in (j + 1)..Len(log) : \A l \in (j + 1)..k : IsToolResultTurn(log[l])}

RequestOf(log, id) == CHOOSE b \in RequestBlocks(log) : b.id = id

Keys(d) == {p[1] : p \in d}

\* arguments satisfy the declared schema: required present, enums respected
ValidArgs(name, input) ==
  /\ Required(name) \subseteq Keys(input)
  /\ \A e \in Enums :
       (e[1] = name /\ HasKey(input, e[2])) => Get(input, e[2]) \in e[3]

IsErrorResult(b) == "is_error" \in DOMAIN b /\ b.is_error = TRUE

\* the iteration cap that the explored runs would have to respect
ToolLoopCap == MaxCalls - 1

----------------------------------------------------------------------------
(* Claims *)

\* C1 (correlation invariant): every tool_result turn references the id of
\* a request issued earlier in the conversation and not yet answered; and
\* for a model turn that issued N requests, N results were appended after
\* it, referencing exactly the N distinct ids of that turn.
C1_Correlation ==
  /\ \A i \in 1..Len(messages) :
       IsToolResultTurn(messages[i]) =>
         ResultId(messages[i]) \in Outstanding(SubSeq(messages, 1, i - 1))
  /\ \A j \in 1..Len(messages) :
       IsRequestTurn(messages[j]) =>
         /\ Cardinality(ResultIdxs(messages, j)) = Len(TurnRequests(messages[j]))
         /\ {ResultId(messages[k]) : k \in ResultIdxs(messages, j)}
              = TurnRequestIds(messages[j])

\* C2: whenever the gateway is about to be invoked, every tool request in
\* the conversation has a matching tool result.
C2_AllResolvedBeforeCall ==
  pc = "ModelThinking" => Outstanding(messages) = {}

\* C3 (loop termination): once the tool rounds of one user message reach the
\* iteration cap, the driver has stopped with ToolLoopExceeded instead of
\* going on.
C3_LoopCapped ==
  rounds >= ToolLoopCap => (pc = "Crashed" /\ fault = "ToolLoopExceeded")

\* C4 (order preservation): the k-th tool result appended for a model turn
\* answers the k-th request listed in that turn.
C4_ResultsInRequestOrder ==
  \A j \in 1..Len(messages) :
    IsRequestTurn(messages[j]) =>
      \A k \in ResultIdxs(messages, j) :
        /\ k - j <= Len(TurnRequests(messages[j]))
        /\ ResultId(messages[k]) = TurnRequests(messages[j])[k - j].id

\* C5 (driver state machine): the driver moves only AwaitingUserInput ->
\* ModelThinking -> (ExecutingTools -> ModelThinking)* -> AwaitingUserInput
\* (or ends: quit, or an uncaught exception).  Tools are entered and handlers
\* run only directly after a tool_use response, a handler run is followed by
\* the next gateway call, and input is read again only after a response that
\* is not a tool request.
C5_DriverTransitions ==
  [][ /\ (pc = "AwaitingUserInput" /\ pc' # pc) => pc' \in {"ModelThinking", "Done"}
      /\ (pc = "ModelThinking" /\ pc' # pc) =>
            pc' \in {"ExecutingTools", "AwaitingUserInput", "Crashed"}
      /\ (pc = "ExecutingTools" /\ pc' # pc) => pc' \in {"ModelThinking", "Crashed"}
      /\ pc \in {"Done", "Crashed"} => pc' = pc
      /\ (pc' = "ExecutingTools" /\ pc # pc') =>
            (calls' = calls + 1 /\ response'.stop_reason = "tool_use")
      /\ (pc' = "AwaitingUserInput" /\ pc # pc') =>
            (calls' = calls + 1 /\ response'.stop_reason # "tool_use")
      /\ handlerCalls' # handlerCalls =>
            /\ pc = "ExecutingTools"
            /\ response.stop_reason = "tool_use"
            /\ pc' = "ModelThinking"
    ]_vars

\* a handler ran in a tool round and the driver is back at the prompt
C5_Witness ==
  /\ pc = "AwaitingUserInput"
  /\ rounds >= 1
  /\ Len(handlerCalls) >= 1
  /\ response.stop_reason = "end_turn"

\* C6 (unknown tool): no tool result is ever appended for a request whose
\* tool name is not declared; such a request ends the driver with UnknownTool.
C6_UnknownToolIsFault ==
  \A i \in 1..Len(messages) :
    IsToolResultTurn(messages[i]) =>
      RequestOf(messages, ResultId(messages[i])).name \in ToolNames

\* C7 (validation before dispatch): a handler is only ever run on arguments
\* that satisfy the tool's schema; arguments that do not raise no local
\* fault, and the result appended for them carries is_error = true.
C7_ValidatedBeforeHandler ==
  /\ \A i \in 1..Len(handlerCalls) :
       ValidArgs(handlerCalls[i].name, handlerCalls[i].input)
  /\ fault # "KeyError"
  /\ \A i \in 1..Len(messages) :
       (/\ IsToolResultTurn(messages[i])
        /\ LET rq == RequestOf(messages, ResultId(messages[i])) IN
             rq.name \in ToolNames /\ ~ValidArgs(rq.name, rq.input))
       => IsErrorResult(ResultBlock(messages[i]))

\* C8 (orphaned tool result): an add_tool_result whose id has no matching
\* outstanding request fails with InvalidTurn and leaves the log unchanged.
C8_OrphanRejected ==
  [][ (/\ lastOp'.n # lastOp.n
       /\ lastOp'.op = "add_tool_result"
       /\ lastOp'.id \notin Outstanding(messages))
      => (messages' = messages /\ fault' = "InvalidTurn") ]_vars

\* C9 (append-only log): every step leaves the previous log as a prefix of
\* the new one: no turn is removed, reordered or changed.
C9_AppendOnly == [][IsPrefix(messages, messages')]_vars

\* the log holds a user turn, a request turn, its result and a final answer
C9_Witness ==
  /\ Len(messages) >= 4
  /\ IsRequestTurn(messages[2])
  /\ IsToolResultTurn(messages[3])
  /\ messages[4].role = "assistant"

\* C10 (full history): the messages passed to every gateway call are exactly
\* the log at the time of the call, all turns in append order.
C10_FullHistorySent ==
  [][ calls' # calls => sent'.messages = messages ]_vars

\* a second gateway call was made with a history of at least three turns
C10_Witness ==
  /\ calls >= 2
  /\ Len(sent.messages) >= 3
  /\ sent.messages = messages

\* the handler outcomes that report a failed execution
BusinessErrors == {PyStr("Can't find that order!")}

\* C11 (business errors): a tool result that carries a handler's business
\* error is marked is_error = true in the log.
C11_BusinessErrorFlagged ==
  \A i \in 1..Len(messages) :
    (/\ IsToolResultTurn(messages[i])
     /\ ResultBlock(messages[i]).content \in {Str(e) : e \in BusinessErrors})
    => IsErrorResult(ResultBlock(messages[i]))

\* C12 (transient gateway failure): a failing gateway call never ends the
\* driver; it is retried and the loop goes on.
C12_GatewayFailureRetried == fault # "APIError"

\* C13 (exactly once): no two handler runs are made for the same request id;
\* every request of a declared tool that the driver has answered had exactly
\* one handler run, of that tool with that input; and every handler run
\* belongs to an answered request.
C13_HandlerOncePerRequest ==
  /\ \A i, j \in 1..Len(handlerCalls) :
       handlerCalls[i].id = handlerCalls[j].id => i = j
  /\ \A i \in 1..Len(messages) :
       (IsToolResultTurn(messages[i])
        /\ RequestOf(messages, ResultId(messages[i])).name \in ToolNames)
       => LET rq == RequestOf(messages, ResultId(messages[i]))
              runs == {k \in 1..Len(handlerCalls) : handlerCalls[k].id = rq.id}
          IN /\ Cardinality(runs) = 1
             /\ \A k \in runs : /\ handlerCalls[k].name = rq.name
                                /\ handlerCalls[k].input = rq.input
  /\ \A k \in 1..Len(handlerCalls) : handlerCalls[k].id \in AnsweredIds(messages)

\* two requests have been dispatched and answered
C13_Witness ==
  /\ Len(handlerCalls) >= 2
  /\ Cardinality(AnsweredIds(messages)) >= 2
  /\ \E k \in 1..Len(handlerCalls) : handlerCalls[k].name = "cancel_order"

\* the responses of the example scenario
ScenarioRequest ==
  [stop_reason |-> "tool_use",
   content |-> <<ToolUseBlock(1, "cancel_order", {<<"order_id", "42">>})>>]
ScenarioFinal ==
  [stop_reason |-> "end_turn",
   content |-> <<TextBlock("Your order has been cancelled.")>>]

ScenarioRan ==
  /\ userMsgs = 1
  /\ userInput = "Cancel order 42"
  /\ responses = <<ScenarioRequest, ScenarioFinal>>

\* C16 (example scenario): after "Cancel order 42" answered by the request
\* {1, cancel_order, order_id 42} and then by final text, the gateway was
\* called twice, cancel_order ran once with order_id 42, the log is
\* [user message, assistant request, tool result for 1, assistant text],
\* the text was shown and the driver awaits input.
C16_Scenario ==
  ScenarioRan =>
    /\ calls = 2
    /\ handlerCalls = <<[id |-> 1, name |-> "cancel_order",
                         input |-> {<<"order_id", "42">>}]>>
    /\ Len(messages) = 4
    /\ messages[1] = [role |-> "user", content |-> TextContent("Cancel order 42")]
    /\ messages[2] = [role |-> "assistant",
                      content |-> ListContent(ScenarioRequest.content)]
    /\ \E d \in DbOutcomes :
         messages[3] = [role |-> "user",
                        content |-> ListContent(<<[type |-> "tool_result",
                                                   tool_use_id |-> 1,
                                                   content |-> d[2]]>>)]
    /\ messages[4] = [role |-> "assistant",
                      content |-> TextContent("Your order has been cancelled.")]
    /\ displayed = "Your order has been cancelled."
    /\ pc = "AwaitingUserInput"

\* the scenario has run, with the handler reporting success
C16_Witness ==
  /\ ScenarioRan
  /\ Len(messages) = 4
  /\ ResultBlock(messages[3]).content = "Cancelled the order"

\* C17 (liveness): after a user message is appended, the driver gets to
\* show a final answer for it and to wait for input again, unless a
\* gateway call or a dispatch raises or the gateway returns neither a tool
\* request nor text; and every tool round is followed by the next gateway
\* call.
C17_FinalAnswerReached ==
  /\ (pc = "ModelThinking")
       ~> \/ /\ pc = "AwaitingUserInput"
             /\ response.stop_reason # "tool_use"
             /\ Len(messages) > 0
             /\ messages[Len(messages)].role = "assistant"
             /\ messages[Len(messages)].content.kind = "str"
          \/ fault \in {"APIError", "KeyError"}
          \/ /\ fault \in {"IndexError", "AttributeError"}
             /\ ~(/\ response.stop_reason # "tool_use"
                  /\ Len(response.content) > 0
                  /\ response.content[1].type = "text")
  /\ [][rounds' = rounds + 1 => pc' = "ModelThinking"]_vars

\* a final answer was shown after two tool rounds
C17_Witness ==
  /\ pc = "AwaitingUserInput"
  /\ rounds = 2
  /\ displayed = "Done."
  /\ fault = "none"

\* the quit signals among the inputs, in their letter cases
QuitInputs == {"exit", "BYE", "Quit"}

\* C18 (quit): reading input ends the session exactly when the input is a
\* quit signal in any letter case; the session ends normally only from the
\* prompt, and ending it adds no turn, calls no gateway and runs no handler.
C18_QuitOnlyOnSignal ==
  [][ /\ (pc = "AwaitingUserInput" /\ pc' # pc) =>
            (pc' = "Done" <=> userInput' \in QuitInputs)
      /\ (pc' = "Done" /\ pc # "Done") =>
            /\ pc = "AwaitingUserInput"
            /\ messages' = messages
            /\ calls' = calls
            /\ handlerCalls' = handlerCalls
    ]_vars

\* the user quit in upper case after a complete exchange
C18_Witness ==
  /\ pc = "Done"
  /\ userInput = "BYE"
  /\ Len(messages) >= 2

\* the tool_use blocks of a response
ToolUses(resp) == SelectSeq(resp.content, LAMBDA b : b.type = "tool_use")

\* a response that a mandatory_named(X) policy does not allow: final text, or
\* a request of a tool other than X
Disallowed(resp, X) ==
  \/ resp.stop_reason # "tool_use"
  \/ ToolUses(resp) = <<>>
  \/ \E i \in 1..Len(ToolUses(resp)) : ToolUses(resp)[i].name # X

\* the run ended as a failure: an exception, or the report that no result
\* was found
Rejected(run) ==
  \/ run.fault # "none"
  \/ run.printed = <<Line("No sentiment analysis found in the response.")>>

\* C14 (policy enforcement): a function that forces tool X and receives final
\* text or a request of another tool ends as a failure and prints none of the
\* response's content as its result.
C14_PolicyEnforced ==
  (/\ nb.phase = "done"
   /\ nb.tool_choice = "print_sentiment_scores"
   /\ Disallowed(nb.response, "print_sentiment_scores"))
  => Rejected(nb)

SmsTools == {"send_text_to_user", "get_customer_info"}

SmsDispatchable(resp) ==
  /\ resp.stop_reason = "tool_use"
  /\ Last(resp.content).type = "tool_use"
  /\ \/ /\ Last(resp.content).name = "send_text_to_user"
        /\ "text" \in Keys(Last(resp.content).input)
     \/ /\ Last(resp.content).name = "get_customer_info"
        /\ "username" \in Keys(Last(resp.content).input)

C19_NoSharedMutableState ==
  [][/\ \A s \in Sessions :
          sess'[s] # sess[s] =>
            \A t \in Sessions \ {s} : sess'[t].messages = sess[t].messages
     /\ db' = db]_vars

\* the half of C19 about the logs alone
C19_LogsIndependent ==
  [][\A s \in Sessions :
        sess'[s] # sess[s] =>
          \A t \in Sessions \ {s} : sess'[t] = sess[t]]_vars

\* a dispatch of a declared tool with arguments that break its schema
Malformed(d) == d.name \in ToolNames /\ ~ValidArgs(d.name, d.input)

Alternates(log) ==
  \A i \in 1..Len(log) : log[i].role = (IF i % 2 = 1 THEN "user" ELSE "assistant")

\* C21 (role alternation): the log starts with a user turn and the roles
\* alternate; whenever a gateway call is due or was made, the last message
\* handed to it has role user.
C21_RolesAlternate ==
  /\ Alternates(messages)
  /\ pc = "ModelThinking" => (Len(messages) > 0 /\ Last(messages).role = "user")
  /\ calls > 0 => (Len(sent.messages) > 0 /\ Last(sent.messages).role = "user")

\* a tool round and a final answer are in the log
C21_Witness ==
  /\ pc = "AwaitingUserInput"
  /\ Len(messages) = 4
  /\ IsToolResultTurn(messages[3])
  /\ messages[4].role = "assistant"

\* C22 (result follows its request): every tool-result turn comes right
\* after the assistant turn that holds the content of a response the gateway
\* returned, and carries the id of that turn's last content block.
C22_ResultFollowsRequest ==
  \A i \in 1..Len(messages) :
    IsToolResultTurn(messages[i]) =>
      /\ i > 1
      /\ IsRequestTurn(messages[i - 1])
      /\ \E k \in 1..Len(responses) :
           /\ responses[k].stop_reason = "tool_use"
           /\ responses[k].content = messages[i - 1].content.list
      /\ ResultId(messages[i]) = Last(messages[i - 1].content.list).id

\* a result for the last of two blocks of one assistant turn
C22_Witness ==
  \E i \in 2..Len(messages) :
    /\ IsToolResultTurn(messages[i])
    /\ Len(messages[i - 1].content.list) = 2
    /\ ResultId(messages[i]) = messages[i - 1].content.list[2].id

\* C23 (failed dispatch leaves the log alone): when process_tool_call raises,
\* the log is the one that was sent with the gateway call whose response was
\* being handled; no assistant turn and no tool result were added.
C23_RaiseLeavesLog ==
  fault = "KeyError" => messages = sent.messages

\* a dispatch raised in the round after a completed tool round
C23_Witness ==
  /\ fault = "KeyError"
  /\ pc = "Crashed"
  /\ Len(messages) = 3
  /\ response.stop_reason = "tool_use"

\* the tool_use responses received so far
ToolRounds == Cardinality({k \in 1..Len(responses) : responses[k].stop_reason = "tool_use"})

\* C26 (log length): whenever the driver waits for input, the log holds two
\* turns per user message (the message and its final answer) and two turns
\* per tool round (the request and its result).
C26_LogLength ==
  pc = "AwaitingUserInput" => Len(messages) = 2 * userMsgs + 2 * ToolRounds

\* two user messages answered, the first after one tool round
C26_Witness ==
  /\ pc = "AwaitingUserInput"
  /\ userMsgs = 2
  /\ ToolRounds = 1
  /\ Len(messages) = 6

\* C27 (every other stop reason is final): a response whose stop_reason is
\* not tool_use runs no handler, appends one assistant turn holding the text
\* of its first content block, and returns the driver to the prompt.
C27_NonToolUseIsFinal ==
  [][(responses' # responses /\ response'.stop_reason # "tool_use") =>
        /\ handlerCalls' = handlerCalls
        /\ Len(response'.content) > 0
        /\ response'.content[1].type = "text"
        /\ messages' = Append(messages,
                              [role |-> "assistant",
                               content |-> TextContent(response'.content[1].text)])
        /\ pc' = "AwaitingUserInput"]_vars

\* the final answers in a log, and the texts of the final responses received
StoredAnswers(log) ==
  SelectSeq(log, LAMBDA m : m.role = "assistant" /\ m.content.kind = "str")

IsFinalText(resp) ==
  /\ resp.stop_reason # "tool_use"
  /\ Len(resp.content) > 0
  /\ resp.content[1].type = "text"

FinalAnswers(resps) ==
  LET finals == SelectSeq(resps, IsFinalText)
  IN [k \in 1..Len(finals) |->
        [role |-> "assistant", content |-> TextContent(finals[k].content[1].text)]]

\* C28 (extraction is display only): the assistant turns stored for final
\* answers hold the gateway's texts unmodified, in the log and in what is
\* sent on later gateway calls; only the displayed reply is extracted.
C28_StoredUnmodified ==
  /\ StoredAnswers(messages) = FinalAnswers(responses)
  /\ IsPrefix(StoredAnswers(sent.messages), FinalAnswers(responses))
  /\ (pc = "AwaitingUserInput" /\ Len(responses) > 0) =>
        displayed = ExtractedReplies[response.content[1].text]

\* a tagged answer was displayed without its tags and resent with them
C28_Witness ==
  /\ \E i \in 1..Len(sent.messages) :
       sent.messages[i] = [role |-> "assistant",
                           content |-> TextContent("<reply> Done. </reply>")]
  /\ displayed = "Done."

\* tag occurs in r at the 1-based position i, and nowhere before
TagAt(r, tag, i) ==
  i + Len(tag) - 1 <= Len(r) /\ SubSeq(r, i, i + Len(tag) - 1) = tag

FirstAt(r, tag, i) == TagAt(r, tag, i) /\ \A j \in 1..(i - 1) : ~TagAt(r, tag, j)

Contains(r, tag) == \E i \in 1..Len(r) : TagAt(r, tag, i)

AllWhite(t) == \A i \in 1..Len(t) : SubSeq(t, i, i) \in Whitespace

\* t is mid without its leading and trailing whitespace
Stripped(mid, t) ==
  /\ \E a, b \in 0..Len(mid) :
       /\ a + b <= Len(mid)
       /\ AllWhite(SubSeq(mid, 1, a))
       /\ AllWhite(SubSeq(mid, Len(mid) - b + 1, Len(mid)))
       /\ t = SubSeq(mid, a + 1, Len(mid) - b)
  /\ Len(t) > 0 => /\ SubSeq(t, 1, 1) \notin Whitespace
                   /\ SubSeq(t, Len(t), Len(t)) \notin Whitespace

\* C24 (extract_reply on a pair): when the first <reply> comes before the
\* first </reply>, the result is the text between the two tags without its
\* leading and trailing whitespace.
C24_ExtractsBetweenTags ==
  fmt.phase = "returned" =>
    \A i, j \in 1..Len(fmt.reply) :
      (/\ FirstAt(fmt.reply, "<reply>", i)
       /\ FirstAt(fmt.reply, "</reply>", j)
       /\ i < j)
      => Stripped(SubSeq(fmt.reply, i + Len("<reply>"), j - 1), fmt.result)

\* the padded text between a pair of tags was returned without its padding
C24_Witness ==
  /\ fmt.phase = "returned"
  /\ fmt.reply = "<reply> ok </reply>"
  /\ fmt.result = "ok"

\* C25 (extract_reply without a pair): a reply without <reply>, without
\* </reply>, or with its first </reply> before its first <reply>, is returned
\* unchanged.
C25_UnchangedWithoutPair ==
  (/\ fmt.phase = "returned"
   /\ \/ ~Contains(fmt.reply, "<reply>")
      \/ ~Contains(fmt.reply, "</reply>")
      \/ \E i, j \in 1..Len(fmt.reply) :
           /\ FirstAt(fmt.reply, "<reply>", i)
           /\ FirstAt(fmt.reply, "</reply>", j)
           /\ j < i)
  => fmt.result = fmt.reply

\* the part of C25 that the code keeps: a reply without </reply> is returned
\* unchanged
C25_UnchangedWithoutEndTag ==
  (fmt.phase = "returned" /\ ~Contains(fmt.reply, "</reply>"))
  => fmt.result = fmt.reply

\* C29 (answer_question workflow): at most two gateway calls are made; a
\* second call is made only after a tool_use response whose last block is a
\* get_article request, and its messages are the user prompt, the assistant
\* turn with the first response's content, and one tool_result for the block
\* that was executed; a first response of another kind gets no second call,
\* and a get_article request whose lookup found its article does.
C29_FourStepWorkflow ==
  /\ Len(aq.calls) <= 2
  /\ aq.phase # "idle" =>
       aq.calls[1] = <<[role |-> "user", content |-> TextContent(Prompt(aq.question))]>>
  /\ Len(aq.calls) = 2 =>
       /\ aq.first.stop_reason = "tool_use"
       /\ aq.executed = Last(aq.first.content)
       /\ aq.executed.type = "tool_use" /\ aq.executed.name = "get_article"
       /\ Len(aq.calls[2]) = 3
       /\ aq.calls[2][1] = aq.calls[1][1]
       /\ aq.calls[2][2] = [role |-> "assistant", content |-> ListContent(aq.first.content)]
       /\ aq.calls[2][3].role = "user"
       /\ Len(aq.calls[2][3].content.list) = 1
       /\ aq.calls[2][3].content.list[1].type = "tool_result"
       /\ aq.calls[2][3].content.list[1].tool_use_id = aq.executed.id
  /\ (aq.phase \in {"second", "done"} /\ aq.first.stop_reason # "tool_use") =>
       Len(aq.calls) = 1
  /\ (/\ aq.phase \in {"second", "done"}
      /\ aq.first.stop_reason = "tool_use"
      /\ Last(aq.first.content).type = "tool_use"
      /\ Last(aq.first.content).name = "get_article"
      /\ "search_term" \in Keys(Last(aq.first.content).input)
      /\ ~(aq.fault = "IndexError" /\ aq.final = NoResponse)) =>
       Len(aq.calls) = 2

\* the second of two get_article requests was run and answered, and the
\* final answer was printed
C29_Witness ==
  /\ aq.phase = "done"
  /\ aq.fault = "none"
  /\ Len(aq.first.content) = 2
  /\ aq.executed.id = "toolu_02"
  /\ Len(aq.calls) = 2
  /\ Len(aq.printed) = 3

\* block i of a response is its first print_sentiment_scores request
FirstSentimentAt(resp, i) ==
  /\ resp.content[i].type = "tool_use"
  /\ resp.content[i].name = "print_sentiment_scores"
  /\ \A j \in 1..(i - 1) :
       ~(resp.content[j].type = "tool_use" /\ resp.content[j].name = "print_sentiment_scores")

NotFound == <<Line("No sentiment analysis found in the response.")>>

\* C30 as stated: analyze_sentiment outputs the input of the first
\* print_sentiment_scores block of the response; without such a block it
\* reports that no sentiment analysis was found.
C30_FirstBlockOutput ==
  (nb.fn = "analyze_sentiment" /\ nb.phase = "done") =>
    IF \E i \in 1..Len(nb.response.content) : FirstSentimentAt(nb.response, i)
    THEN \A i \in 1..Len(nb.response.content) :
           FirstSentimentAt(nb.response, i) =>
             nb.printed = <<Line("Sentiment Analysis (JSON):"), Json(nb.response.content[i].input)>>
    ELSE nb.printed = NotFound

\* C30 as amended: the input of the first print_sentiment_scores block is
\* output when it is not empty; when there is no such block, or the first
\* one has an empty input, no sentiment analysis is reported and no JSON is
\* output.
C30_FirstNonEmptyOutput ==
  (nb.fn = "analyze_sentiment" /\ nb.phase = "done") =>
    IF \E i \in 1..Len(nb.response.content) :
         FirstSentimentAt(nb.response, i) /\ nb.response.content[i].input # {}
    THEN \A i \in 1..Len(nb.response.content) :
           FirstSentimentAt(nb.response, i) =>
             nb.printed = <<Line("Sentiment Analysis (JSON):"), Json(nb.response.content[i].input)>>
    ELSE nb.printed = NotFound

\* of two print_sentiment_scores blocks the input of the first was output
C30_Witness ==
  /\ nb.fn = "analyze_sentiment"
  /\ nb.phase = "done"
  /\ Len(nb.response.content) = 2
  /\ FirstSentimentAt(nb.response, 1)
  /\ nb.response.content[2].name = "print_sentiment_scores"
  /\ nb.printed = <<Line("Sentiment Analysis (JSON):"), Json(Scores)>>

====
